---- MODULE Spec2Model ----
(***************************************************************************)
(* The FSN gas faucet of src/run.mjs: the POST /api/v1/retrieve handler,   *)
(* the payout (payoutFSN), the claim collection (Address) and the          *)
(* connection keeper (keepWeb3Alive), together with the two external       *)
(* systems they talk to: the document database and the chain behind the    *)
(* websocket provider.                                                     *)
(*                                                                         *)
(* A handler run is one slot of req. Every await of the handler is one     *)
(* step of the slot: the code between two awaits runs without              *)
(* interruption (one JavaScript thread), and other handler runs, socket    *)
(* events, timers and the clock interleave between the steps.              *)
(***************************************************************************)
EXTENDS Integers, Sequences, FiniteSets, Bags, TLC

\* ------------------------------------------------------------------ bounds

\* Hex digits of an address (40 in web3.utils.isAddress).
AddrLen == 2
\* Handler runs that may overlap.
MaxInFlight == 2
\* The clock runs from day 0 to day MaxTime.
MaxTime == 2
\* Transactions an account sends on its own.
MaxTxCount == 1
\* Somebody else sends gwei to an account that holds less than this.
MaxDeposit == 1
\* Sockets the network fails or closes.
MaxDrops == 2
\* Requests of one key the limiter refuses in one window.
MaxRefused == 2

\* --------------------------------------------------------------- constants

\* moment().subtract("1", "days"): the clock counts days.
DAY == 1
\* web3.utils.toWei("2", "gwei"): balances count gwei.
PayoutGwei == 2
\* rateLimit({ max: 10 }): requests of one key admitted in one window.
RateMax == 10

Slots == 1..MaxInFlight
IPs == {"ip1", "ip2"}
NoHeader == "undefined"

\* Where a request comes from: its x-forwarded-for header and its socket's
\* remote address.
Origins ==
    { [xff |-> NoHeader, remote |-> "ip1"],
      [xff |-> "ip2", remote |-> "ip1"] }

\* The limiter's keys: req.ip, the remote address as long as the application
\* does not trust a proxy.
Keys == {o.remote : o \in Origins}

\* ----------------------------------------------------------------- strings
\* A string is a sequence of one-character strings.

Rep(c, n) == [i \in 1..n |-> c]
Prefix0x == <<"0", "x">>

HexLower == {"0", "a", "b"}
HexUpper == {"A", "B"}

\* String.prototype.toLowerCase, on the characters the inputs use.
LowerChar(c) ==
    CASE c = "A" -> "a"
      [] c = "B" -> "b"
      [] c = "X" -> "x"
      [] OTHER -> c

\* (the address is used as it was sent)
toLowerCaseNot(str) == str

toLowerCase(str) == [i \in 1..Len(str) |-> LowerChar(str[i])]

AllIn(str, S) == \A i \in 1..Len(str) : str[i] \in S

\* The digits of an address string after an optional 0x or 0X.
StripPrefix(str) ==
    IF Len(str) >= 2 /\ str[1] = "0" /\ str[2] \in {"x", "X"}
    THEN SubSeq(str, 3, Len(str))
    ELSE str

\* (a length test that lets a short address through)
isAddressShort(str) ==
    /\ Len(StripPrefix(str)) <= AddrLen
    /\ AllIn(StripPrefix(str), HexLower \cup HexUpper)

\* web3.utils.isAddress: /^(0x)?[0-9a-f]{40}$/i must match; an address all
\* in lower or all in upper case is then accepted without a checksum, and a
\* mixed-case one only with a valid checksum (none of the inputs has one).
isAddress(str) ==
    LET digits == StripPrefix(str)
    IN  /\ Len(digits) = AddrLen
        /\ AllIn(digits, HexLower \cup HexUpper)
        /\ \/ AllIn(digits, HexLower)
           \/ AllIn(digits, HexUpper)

\* The chain account an accepted address string names.
Account(w) == StripPrefix(w)

Accounts == {Rep("a", AddrLen), Rep("b", AddrLen)}

\* Request bodies: none at all, one without walletAddress, and one with.
WalletInputs ==
    { Prefix0x \o Rep("a", AddrLen),        \* lower case
      Prefix0x \o Rep("A", AddrLen),        \* the same account, upper case
      Prefix0x \o Rep("b", AddrLen),
      Prefix0x \o Rep("g", AddrLen),        \* not hexadecimal
      Prefix0x \o Rep("a", AddrLen - 1) }   \* too short
Bodies ==
    { [kind |-> "none", walletAddress |-> <<>>],
      [kind |-> "empty", walletAddress |-> <<>>] }
    \cup { [kind |-> "wallet", walletAddress |-> w] : w \in WalletInputs }


\* ------------------------------------------------------------------- state

VARIABLES
    req,          \* the handler runs: one record of locals per slot
    db,           \* the Address collection: a bag of claim records
    balance,      \* chain: gwei held by each account
    nonce,        \* chain: transactions each account has sent
    paid,         \* chain: faucet transfers mined for each account
    now,          \* the clock, in days
    socks,        \* the socket of every provider keepWeb3Alive has created
    provider,     \* `provider`: the provider created last (its place in socks)
    web3,         \* `web3`: the handle's provider and its _isConnected flag
    timers,       \* reconnect timers set and not yet run
    drops,        \* sockets the network has failed or closed so far
    hits,         \* limiter: requests counted for each key in this window
    half,         \* limiter: the half of its window the clock is in (0 or 1)
    reached       \* requests of each key that reached the handler, in the
                  \* last half window (.before) and in this one (.now)

chain == <<balance, nonce, paid>>
keeper == <<socks, provider, web3, timers, drops>>
limiter == <<hits, half, reached>>
vars == <<req, db, balance, nonce, paid, now, socks, provider, web3, timers, drops,
          hits, half, reached>>

\* Error messages (err.message) the handler sends with status 400.
ErrNoBody   == "Bad Request"
ErrType     == "Cannot read property 'toLowerCase' of undefined"
ErrInvalid  == "Wallet address does not appear to be valid."
ErrClaimed  == "Address has already claimed gas."
ErrIp       == "Your IP has already claimed gas for an address recently."
ErrUsed     == "Must be a new, unused address."
ErrBalance  == "Address has a non-zero balance"
ErrPayout   == "Sending faucet gas failed: "
ErrRpc      == "connection not open"
ErrDb       == "database error"
ErrLimited  == "Too many requests, please try again later."

NoTx == [to |-> <<>>, n |-> 0]

Idle ==
    [ pc |-> "idle", walletAddress |-> <<>>, ipAddress |-> "", ONE_DAY |-> 0,
      walletAppliedRecently |-> FALSE, ipRecent |-> FALSE, bal |-> 0,
      txCount |-> 0, txHash |-> NoTx, lastVisit |-> 0, status |-> 0,
      err |-> "", payouts |-> 0,
      \* the nonce signTransaction put into the transfer
      txNonce |-> 0,
      \* what held when the request arrived (read by the properties only)
      claimed |-> FALSE, ipClaimed |-> FALSE, fresh |-> FALSE,
      droppedBefore |-> 0,
      \* the walletAddress of the body, as it was sent
      sent |-> <<>> ]

\* ---------------------------------------------------------------- database

Doc(w, ip, t) == [walletAddress |-> w, ipAddress |-> ip, lastVisit |-> t]
Docs(d) == BagToSet(d)

\* (a lookup that never finds the wallet)
findOneWalletNever(d, w) == FALSE

\* Address.findOne({ walletAddress }): some record of the wallet, or null.
findOneWallet(d, w) == \E doc \in Docs(d) : doc.walletAddress = w

\* (a lookup of the IP that does not look at the date)
findOneIpEver(d, ip, since) == \E doc \in Docs(d) : doc.ipAddress = ip

\* Address.findOne({ ipAddress, lastVisit: { $gte: since } }).
findOneIp(d, ip, since) ==
    \E doc \in Docs(d) : doc.ipAddress = ip /\ doc.lastVisit >= since

Matching(d, w, ip) ==
    {doc \in Docs(d) : doc.walletAddress = w /\ doc.ipAddress = ip}

\* (the new record replaces the collection)
updateOneOverwrite(d, w, ip, t) == SetToBag({Doc(w, ip, t)})

\* (an insert instead of an upsert)
updateOneInsert(d, w, ip, t) == d (+) SetToBag({Doc(w, ip, t)})

\* Address.updateOne({walletAddress, ipAddress}, {..., lastVisit}, {upsert: true}):
\* one matching record is replaced, and with none matching one is inserted.
\* The database applies an upsert in one step.
updateOne(d, w, ip, t) ==
    IF Matching(d, w, ip) = {}
    THEN d (+) SetToBag({Doc(w, ip, t)})
    ELSE LET old == CHOOSE doc \in Matching(d, w, ip) : TRUE
         IN  (d (-) SetToBag({old})) (+) SetToBag({Doc(w, ip, t)})

\* Records of the collection for a (walletAddress, ipAddress) pair.
Count(d, w, ip) ==
    LET m == Matching(d, w, ip)
        RECURSIVE Sum(_)
        Sum(S) == IF S = {} THEN 0
                  ELSE LET x == CHOOSE y \in S : TRUE
                       IN  CopiesIn(x, d) + Sum(S \ {x})
    IN  Sum(m)

\* ------------------------------------------------------------------- chain

\* (a balance read that sees nothing)
getBalanceZero(a) == 0

\* What the node answers to eth_getBalance and eth_getTransactionCount: an
\* account nobody has used holds nothing and has sent nothing.
getBalance(a) == IF a \in Accounts THEN balance[a] ELSE 0
getTransactionCount(a) == IF a \in Accounts THEN nonce[a] ELSE 0

\* The transaction count of the faucet's account: the transfers it has had
\* mined.
FaucetNonce ==
    LET RECURSIVE Sum(_)
        Sum(S) == IF S = {} THEN 0
                  ELSE LET a == CHOOSE x \in S : TRUE
                       IN  paid[a] + Sum(S \ {a})
    IN  Sum(Accounts)

\* ------------------------------------------------------------------ socket

Live(state) == state \in {"CONNECTING", "OPEN", "CLOSING"}
\* The socket behind the web3 handle the requests use is open.
Connected == socks[web3.provider] = "OPEN"

\* ----------------------------------------------------------------- handler

\* The slot's locals after the handler answered `status` with message `msg`.
Respond(r, status, msg) ==
    [r EXCEPT !.pc = "done", !.status = status, !.err = msg,
              !.ONE_DAY = 0, !.lastVisit = 0, !.txNonce = 0]

\* req.headers["x-forwarded-for"] || req.socket.remoteAddress
IpOf(xff, remote) == IF xff # NoHeader THEN xff ELSE remote

\* What holds of the collection and the chain when a request arrives.
HasClaim(w) == \E doc \in Docs(db) : doc.walletAddress = w
IpClaimedToday(ip) ==
    \E doc \in Docs(db) : doc.ipAddress = ip /\ now - doc.lastVisit <= DAY
FreshOnChain(w) ==
    Account(w) \in Accounts => balance[Account(w)] = 0 /\ nonce[Account(w)] = 0

\* Lines 103-122: the body check, the lower-casing, the address check, the
\* IP and the cut-off date, up to the first await: the locals of the run.
Start(body, xff, remote) ==
    LET walletAddress == toLowerCase(body.walletAddress)
        ipAddress == IpOf(xff, remote)
        seen == [Idle EXCEPT
                   !.sent = body.walletAddress,
                   !.droppedBefore = drops,
                   !.ipAddress = ipAddress,
                   !.ipClaimed = IpClaimedToday(ipAddress)]
        valid == [seen EXCEPT
                   !.walletAddress = walletAddress,
                   !.claimed = HasClaim(walletAddress),
                   !.fresh = FreshOnChain(walletAddress)]
    IN  IF body.kind = "none" THEN Respond(seen, 400, ErrNoBody)
        ELSE IF body.kind = "empty" THEN Respond(seen, 400, ErrType)
        ELSE IF ~isAddress(walletAddress)
        THEN Respond([seen EXCEPT !.walletAddress = walletAddress],
                     400, ErrInvalid)
        ELSE [valid EXCEPT !.pc = "findWallet", !.ONE_DAY = now - DAY]

\* A request the limiter has let through reaches the handler.
Arrive(s, body, xff, remote) ==
    /\ req[s].pc \in {"idle", "done"}
    /\ req' = [req EXCEPT ![s] = Start(body, xff, remote)]
    /\ UNCHANGED <<db, chain, now, keeper, limiter>>

\* (the limit is passed one request late)
ExceededLate(current) == current > RateMax + 1

\* express-rate-limit: if (max && current > max) the limiter answers.
Exceeded(current) == current > RateMax

\* Lines 22-25 and 43: the limiter counts the request for its key and either
\* answers it (429) or lets it through to the handler (lines 103-122).
Request(s, body, xff, remote) ==
    /\ req[s].pc \in {"idle", "done"}
    /\ hits[remote] < RateMax + MaxRefused
    /\ hits' = [hits EXCEPT ![remote] = @ + 1]
    /\ IF Exceeded(hits[remote] + 1)
       THEN /\ req' = [req EXCEPT ![s] = Respond(Idle, 429, ErrLimited)]
            /\ reached' = reached
       ELSE /\ req' = [req EXCEPT ![s] = Start(body, xff, remote)]
            /\ reached' = [reached EXCEPT ![remote].now = @ + 1]
    /\ UNCHANGED <<db, chain, now, keeper, half>>

\* The store's resetAll, run every windowMs: all counts start again.
resetAll == hits' = [k \in Keys |-> 0]

\* Half of windowMs passes; at the end of the second half the store resets.
WindowTick ==
    /\ half' = 1 - half
    /\ IF half = 1 THEN resetAll ELSE hits' = hits
    /\ reached' = [k \in Keys |-> [before |-> reached[k].now, now |-> 0]]
    /\ UNCHANGED <<req, db, chain, now, keeper>>

\* Lines 122-124: the wallet's claim record arrives, or the lookup throws.
FindWallet(s, ok) ==
    /\ req[s].pc = "findWallet"
    /\ req' = [req EXCEPT ![s] =
          IF ok
          THEN [@ EXCEPT !.pc = "findIp",
                         !.walletAppliedRecently = findOneWallet(db, req[s].walletAddress)]
          ELSE Respond(@, 400, ErrDb)]
    /\ UNCHANGED <<db, chain, now, keeper, limiter>>

\* Lines 126-129: the IP's recent claim record arrives, or the lookup throws.
FindIp(s, ok) ==
    /\ req[s].pc = "findIp"
    /\ req' = [req EXCEPT ![s] =
          IF ok
          THEN [@ EXCEPT !.pc = "getBalance",
                         !.ipRecent = findOneIp(db, req[s].ipAddress, req[s].ONE_DAY)]
          ELSE Respond(@, 400, ErrDb)]
    /\ UNCHANGED <<db, chain, now, keeper, limiter>>

\* (a call that does not need the socket)
RpcOkOffline(ok) == ok

\* A call through the web3 handle goes through only on an open socket.
RpcOk(ok) == ok /\ Connected

\* Line 131: Number(web3.utils.fromWei(await web3.eth.getBalance(...))); the
\* number is kept in gwei, and is zero exactly when the balance is.
GetBalance(s, ok) ==
    /\ req[s].pc = "getBalance"
    /\ req' = [req EXCEPT ![s] =
          IF RpcOk(ok)
          THEN [@ EXCEPT !.pc = "getTxCount",
                         !.bal = getBalance(Account(req[s].walletAddress))]
          ELSE Respond(@, 400, ErrRpc)]
    /\ UNCHANGED <<db, chain, now, keeper, limiter>>

\* (txCount compared with a string: the test never passes)
RejectionTxCountTyped(r) ==
    IF r.walletAppliedRecently THEN ErrClaimed
    ELSE IF r.ipRecent THEN ErrIp
    ELSE ErrUsed

\* (no test of the IP's recent claim)
RejectionNoIp(r) ==
    IF r.walletAppliedRecently THEN ErrClaimed
    ELSE IF r.txCount # 0 THEN ErrUsed
    ELSE IF r.bal # 0 THEN ErrBalance
    ELSE ""

\* (no test of the balance)
RejectionNoBalance(r) ==
    IF r.walletAppliedRecently THEN ErrClaimed
    ELSE IF r.ipRecent THEN ErrIp
    ELSE IF r.txCount # 0 THEN ErrUsed
    ELSE ""

\* (the IP's claim is tested before the wallet's)
RejectionIpFirst(r) ==
    IF r.ipRecent THEN ErrIp
    ELSE IF r.walletAppliedRecently THEN ErrClaimed
    ELSE IF r.txCount # 0 THEN ErrUsed
    ELSE IF r.bal # 0 THEN ErrBalance
    ELSE ""

\* Lines 134-142: the rejection that applies to the locals, "" when none does.
Rejection(r) ==
    IF r.walletAppliedRecently THEN ErrClaimed
    ELSE IF r.ipRecent THEN ErrIp
    ELSE IF r.txCount # 0 THEN ErrUsed
    ELSE IF r.bal # 0 THEN ErrBalance
    ELSE ""

\* Lines 132-145 and 80-88: the transaction count arrives, the rejections are
\* checked, and payoutFSN starts and asks for the transfer to be built.
GetTxCount(s, ok) ==
    /\ req[s].pc = "getTxCount"
    /\ req' = [req EXCEPT ![s] =
          IF RpcOk(ok)
          THEN LET r == [@ EXCEPT !.txCount = getTransactionCount(Account(req[s].walletAddress))]
               IN  IF Rejection(r) # ""
                   THEN Respond(r, 400, Rejection(r))
                   ELSE [r EXCEPT !.pc = "build"]
          ELSE Respond(@, 400, ErrRpc)]
    /\ UNCHANGED <<db, chain, now, keeper, limiter>>

\* Lines 88-93: buildSendAssetTx answers (its failure is not wrapped).
Build(s, ok) ==
    /\ req[s].pc = "build"
    /\ req' = [req EXCEPT ![s] =
          IF RpcOk(ok) THEN [@ EXCEPT !.pc = "sign"] ELSE Respond(@, 400, ErrRpc)]
    /\ UNCHANGED <<db, chain, now, keeper, limiter>>

\* Lines 93-94: signTransaction answers; the transfer has no nonce of its
\* own (lines 81-90), so the faucet's transaction count is asked of the node.
Sign(s, ok) ==
    /\ req[s].pc = "sign"
    /\ req' = [req EXCEPT ![s] =
          IF RpcOk(ok) THEN [@ EXCEPT !.pc = "send", !.txNonce = FaucetNonce]
          ELSE Respond(@, 400, ErrPayout)]
    /\ UNCHANGED <<db, chain, now, keeper, limiter>>

\* The node accepts the signed transfer of the request of slot s: its nonce
\* is the faucet's transaction count (a transfer signed before another
\* transfer of the faucet was mined carries a nonce that is used up).
Mineable(s) == req[s].txNonce = FaucetNonce

\* (the broadcast is not awaited: the handler goes on before anything is sent)
SendUnawaited(s, ok) ==
    /\ req[s].pc = "send"
    /\ req' = [req EXCEPT ![s] = [@ EXCEPT !.pc = "upsert", !.lastVisit = now]]
    /\ UNCHANGED <<db, chain, now, keeper, limiter>>

\* (a failed broadcast starts the payout again)
SendRetries(s, ok) ==
    /\ req[s].pc = "send"
    /\ LET a == Account(req[s].walletAddress)
       IN  IF RpcOk(ok) /\ Mineable(s)
           THEN /\ balance' = [balance EXCEPT ![a] = @ + PayoutGwei]
                /\ paid' = [paid EXCEPT ![a] = @ + 1]
                /\ req' = [req EXCEPT ![s] =
                      [@ EXCEPT !.pc = "upsert",
                                !.txHash = [to |-> a, n |-> paid[a] + 1],
                                !.payouts = @ + 1,
                                !.lastVisit = now]]
           ELSE /\ req' = [req EXCEPT ![s] = [@ EXCEPT !.pc = "build"]]
                /\ UNCHANGED <<balance, paid>>
    /\ UNCHANGED <<db, nonce, now, keeper, limiter>>

\* Lines 94-98 and 145-156: sendSignedTransaction answers with the receipt of
\* the mined transfer, and the handler asks for the upsert with new Date();
\* or it throws (the node refuses the transfer, or the call fails) and
\* nothing was transferred.
Send(s, ok) ==
    /\ req[s].pc = "send"
    /\ LET a == Account(req[s].walletAddress)
       IN  IF RpcOk(ok) /\ Mineable(s)
           THEN /\ balance' = [balance EXCEPT ![a] = @ + PayoutGwei]
                /\ paid' = [paid EXCEPT ![a] = @ + 1]
                /\ req' = [req EXCEPT ![s] =
                      [@ EXCEPT !.pc = "upsert",
                                !.txHash = [to |-> a, n |-> paid[a] + 1],
                                !.payouts = @ + 1,
                                !.lastVisit = now]]
           ELSE /\ req' = [req EXCEPT ![s] = Respond(@, 400, ErrPayout)]
                /\ UNCHANGED <<balance, paid>>
    /\ UNCHANGED <<db, nonce, now, keeper, limiter>>

\* Lines 94-98: sendSignedTransaction throws although the transfer is mined
\* (its receipt does not arrive: the socket closed, or the wait timed out).
SendLost(s) ==
    /\ req[s].pc = "send"
    /\ Mineable(s)
    /\ LET a == Account(req[s].walletAddress)
       IN  /\ balance' = [balance EXCEPT ![a] = @ + PayoutGwei]
           /\ paid' = [paid EXCEPT ![a] = @ + 1]
           /\ req' = [req EXCEPT ![s] =
                 Respond([@ EXCEPT !.payouts = @ + 1], 400, ErrPayout)]
    /\ UNCHANGED <<db, nonce, now, keeper, limiter>>

\* (a failed upsert is not reported)
UpsertUnchecked(s, ok) ==
    /\ req[s].pc = "upsert"
    /\ req' = [req EXCEPT ![s] = Respond(@, 200, "")]
    /\ db' = IF ok THEN updateOne(db, req[s].walletAddress, req[s].ipAddress,
                                  req[s].lastVisit)
             ELSE db
    /\ UNCHANGED <<chain, now, keeper, limiter>>

\* Lines 149-165: the upsert answers and the handler sends the response.
Upsert(s, ok) ==
    /\ req[s].pc = "upsert"
    /\ IF ok
       THEN /\ db' = updateOne(db, req[s].walletAddress, req[s].ipAddress,
                               req[s].lastVisit)
            /\ req' = [req EXCEPT ![s] = Respond(@, 200, "")]
       ELSE /\ req' = [req EXCEPT ![s] = Respond(@, 400, ErrDb)]
            /\ UNCHANGED db
    /\ UNCHANGED <<chain, now, keeper, limiter>>

\* ------------------------------------------------------------------ keeper
\* A provider's socket is CONNECTING, then OPEN, then CLOSING, then CLOSED;
\* it raises "connect" when it opens, "error" when it fails (and then
\* closes) and "end" once, when it has closed. The handlers of every
\* provider read the module's `provider` and `web3`, not their own.

\* ("connect" does not set the flag)
OnConnectNoFlag(p) ==
    /\ socks[p] = "CONNECTING"
    /\ socks' = [socks EXCEPT ![p] = "OPEN"]
    /\ UNCHANGED <<req, db, chain, now, provider, web3, timers, drops, limiter>>

\* Lines 62-64: the socket of provider p opens; "connect" sets the flag of
\* the current web3 handle.
OnConnect(p) ==
    /\ socks[p] = "CONNECTING"
    /\ socks' = [socks EXCEPT ![p] = "OPEN"]
    /\ web3' = [web3 EXCEPT !.isConnected = "true"]
    /\ UNCHANGED <<req, db, chain, now, provider, timers, drops, limiter>>

\* WebsocketProvider.disconnect(): an open or opening socket starts closing.
Disconnect(state) == IF state \in {"CONNECTING", "OPEN"} THEN "CLOSING" ELSE state

\* ("error" sets the reconnect timer as well)
OnErrorReconnects(p) ==
    /\ socks[p] \in {"CONNECTING", "OPEN"}
    /\ drops < MaxDrops
    /\ drops' = drops + 1
    /\ socks' = [[socks EXCEPT ![p] = "CLOSING"]
                    EXCEPT ![provider] = Disconnect(@)]
    /\ timers' = timers + 1
    /\ UNCHANGED <<req, db, chain, now, provider, web3, limiter>>

\* Lines 65-67: the socket of provider p fails; "error" disconnects the
\* current provider.
OnError(p) ==
    /\ socks[p] \in {"CONNECTING", "OPEN"}
    /\ drops < MaxDrops
    /\ drops' = drops + 1
    /\ socks' = [[socks EXCEPT ![p] = "CLOSING"]
                    EXCEPT ![provider] = Disconnect(@)]
    /\ UNCHANGED <<req, db, chain, now, provider, web3, timers, limiter>>

\* ("end" sets no timer)
OnEndHandlerNoTimer ==
    /\ web3' = [web3 EXCEPT !.isConnected = "false"]
    /\ timers' = timers

\* Lines 68-73: "end" clears the flag of the current web3 handle and sets
\* the reconnect timer.
OnEndHandler ==
    /\ web3' = [web3 EXCEPT !.isConnected = "false"]
    /\ timers' = timers + 1

\* A closing socket has closed.
OnEnd(p) ==
    /\ socks[p] = "CLOSING"
    /\ socks' = [socks EXCEPT ![p] = "CLOSED"]
    /\ OnEndHandler
    /\ UNCHANGED <<req, db, chain, now, provider, drops, limiter>>

\* The other side closes an open socket.
OnRemoteClose(p) ==
    /\ socks[p] = "OPEN"
    /\ drops < MaxDrops
    /\ drops' = drops + 1
    /\ socks' = [socks EXCEPT ![p] = "CLOSED"]
    /\ OnEndHandler
    /\ UNCHANGED <<req, db, chain, now, provider, limiter>>

\* Lines 60-76: keepWeb3Alive makes a new provider and a new web3 handle
\* around it (whose _isConnected is not set yet).
keepWeb3Alive ==
    /\ socks' = Append(socks, "CONNECTING")
    /\ provider' = Len(socks) + 1
    /\ web3' = [provider |-> Len(socks) + 1, isConnected |-> "undefined"]

\* Lines 70-72: the reconnect timer runs.
Reconnect ==
    /\ timers > 0
    /\ timers' = timers - 1
    /\ keepWeb3Alive
    /\ UNCHANGED <<req, db, chain, now, drops, limiter>>

\* ------------------------------------------------------------- environment

\* Somebody else than the faucet sends the account one gwei.
Deposit(a) ==
    /\ balance[a] < MaxDeposit
    /\ balance' = [balance EXCEPT ![a] = @ + 1]
    /\ UNCHANGED <<req, db, nonce, paid, now, keeper, limiter>>

\* The account sends a transaction that spends what it holds.
Spend(a) ==
    /\ balance[a] > 0
    /\ nonce[a] < MaxTxCount
    /\ balance' = [balance EXCEPT ![a] = 0]
    /\ nonce' = [nonce EXCEPT ![a] = @ + 1]
    /\ UNCHANGED <<req, db, paid, now, keeper, limiter>>

\* A day passes (and with it the limiter's window).
Tick ==
    /\ now < MaxTime
    /\ now' = now + 1
    /\ resetAll
    /\ reached' = [k \in Keys |-> [before |-> 0, now |-> 0]]
    /\ UNCHANGED <<req, db, chain, keeper, half>>

\* ----------------------------------------------------------- specification

\* Line 172: the state once the module has run: keepWeb3Alive has been called.
Init ==
    /\ req = [s \in Slots |-> Idle]
    /\ db = EmptyBag
    /\ balance = [a \in Accounts |-> 0]
    /\ nonce = [a \in Accounts |-> 0]
    /\ paid = [a \in Accounts |-> 0]
    /\ now = 0
    /\ socks = <<"CONNECTING">>
    /\ provider = 1
    /\ web3 = [provider |-> 1, isConnected |-> "undefined"]
    /\ timers = 0
    /\ drops = 0
    /\ hits = [k \in Keys |-> 0]
    /\ half = 0
    /\ reached = [k \in Keys |-> [before |-> 0, now |-> 0]]

\* A request with a body of B that the limiter lets through arrives in a
\* slot of S. (The limiter only refuses requests: what holds of every
\* sequence of requests holds of those it lets through.)
Arrivals(S, B) ==
    \E s \in S, body \in B, from \in Origins :
        Arrive(s, body, from.xff, from.remote)

\* A request with a body of B comes to the limiter, for a slot of S.
Requests(S, B) ==
    \E s \in S, body \in B, from \in Origins :
        Request(s, body, from.xff, from.remote)

\* A handler run of a slot of S takes its next step; the awaited call
\* succeeds or throws.
Handler(S) ==
    \E s \in S, ok \in BOOLEAN :
        \/ FindWallet(s, ok)
        \/ FindIp(s, ok)
        \/ GetBalance(s, ok)
        \/ GetTxCount(s, ok)
        \/ Build(s, ok)
        \/ Sign(s, ok)
        \/ Send(s, ok)
        \/ SendLost(s)
        \/ Upsert(s, ok)

\* The socket events and the reconnect timer.
Keeper ==
    \/ \E p \in 1..Len(socks) : OnConnect(p)
    \/ \E p \in 1..Len(socks) : OnError(p)
    \/ \E p \in 1..Len(socks) : OnEnd(p)
    \/ \E p \in 1..Len(socks) : OnRemoteClose(p)
    \/ Reconnect

\* The accounts' own activity on the chain.
Chain ==
    \/ \E a \in Accounts : Deposit(a)
    \/ \E a \in Accounts : Spend(a)

Next ==
    \/ Requests(Slots, Bodies)
    \/ Handler(Slots)
    \/ Keeper
    \/ Chain
    \/ Tick
    \/ WindowTick

\* The whole service.
Spec == Init /\ [][Next]_vars

\* The socket opens and stays open.
Opens == \E p \in 1..Len(socks) : OnConnect(p)

\* One request at a time, on a connection that does not drop: a request
\* arrives only when none is being handled.
SeqNext ==
    \/ Arrivals({1}, Bodies)
    \/ Handler({1})
    \/ Opens
    \/ Chain
    \/ Tick

SeqSpec == Init /\ [][SeqNext]_vars

\* Overlapping requests for one address, on a connection that does not drop
\* and with no other activity of the account.
RaceBodies ==
    { [kind |-> "wallet", walletAddress |-> Prefix0x \o Rep("a", AddrLen)] }

RaceNext ==
    \/ Arrivals(Slots, RaceBodies)
    \/ Handler(Slots)
    \/ Opens
    \/ Tick

RaceSpec == Init /\ [][RaceNext]_vars

\* One request at a time for one address, on a connection that drops and is
\* made again. A timer that is set runs (setTimeout calls its callback) and
\* a socket that is closing closes (the close of a websocket times out).
KeeperBodies == RaceBodies

KeeperNext ==
    \/ Arrivals({1}, KeeperBodies)
    \/ Handler({1})
    \/ Keeper

KeeperSpec ==
    /\ Init /\ [][KeeperNext]_vars
    /\ WF_vars(Reconnect)
    /\ WF_vars(\E p \in 1..Len(socks) : OnEnd(p))

\* One request at a time for one address, through the limiter, on a
\* connection that does not drop.
LimitNext ==
    \/ Requests({1}, RaceBodies)
    \/ Handler({1})
    \/ Opens
    \/ WindowTick

LimitSpec == Init /\ [][LimitNext]_vars

\* ------------------------------------------------------------------ claims

Done(s) == req[s].pc = "done"
InFlight(s) == req[s].pc \notin {"idle", "done"}
\* The slot's handler run takes a step.
Steps(s) == InFlight(s) /\ req'[s] # req[s]

\* An address by the letter: AddrLen hexadecimal digits after an optional 0x.
WellFormed(w) ==
    /\ Len(StripPrefix(w)) = AddrLen
    /\ AllIn(StripPrefix(w), HexLower \cup HexUpper)

\* The messages of a database or chain call that failed (Faults), and of
\* one of the four reads before the payout (ReadFaults).
Faults == {ErrDb, ErrRpc, ErrPayout}
ReadFaults == {ErrDb, ErrRpc}

\* The lookups of the request of slot s were all made and found nothing
\* against it.
FoundEligible(s) ==
    /\ WellFormed(req[s].walletAddress)
    /\ req[s].err \notin ReadFaults
    /\ ~req[s].walletAppliedRecently
    /\ ~req[s].ipRecent
    /\ req[s].txCount = 0
    /\ req[s].bal = 0

\* The request of slot s was eligible when it arrived.
Eligible(s) ==
    /\ WellFormed(req[s].walletAddress)
    /\ ~req[s].claimed
    /\ ~req[s].ipClaimed
    /\ req[s].fresh

\* The request of slot s was paid once, answered 200 with the hash of that
\* transfer, and the collection holds one record for its pair.
PaidOnce(s) ==
    /\ req[s].status = 200
    /\ req[s].payouts = 1
    /\ req[s].txHash.to = Account(req[s].walletAddress)
    /\ req[s].txHash.n \in 1..paid[Account(req[s].walletAddress)]
    /\ Count(db, req[s].walletAddress, req[s].ipAddress) = 1

\* C1 as stated: every request that is eligible when it arrives is paid once,
\* answered 200 with the transaction hash and leaves exactly one record for
\* its (walletAddress, ipAddress) pair.
C1_EligibleAlwaysPaid ==
    \A s \in Slots : Done(s) /\ Eligible(s) => PaidOnce(s)

\* C1 as amended: a request with a valid address whose lookups find no claim
\* record of the wallet, none of the IP in the last day, no transaction and
\* no balance, and none of whose database and chain calls fails, is paid
\* once, answered 200 with the transaction hash and leaves exactly one
\* record for its (walletAddress, ipAddress) pair.
C1_EligiblePaidUnlessFault ==
    \A s \in Slots :
        Done(s) /\ FoundEligible(s) /\ req[s].err \notin Faults => PaidOnce(s)

\* An eligible request has been paid and recorded.
C1_Witness ==
    \E s \in Slots : Done(s) /\ Eligible(s) /\ PaidOnce(s)

\* C2: a request whose address is malformed is answered 400 at once, is paid
\* nothing, and no record of the collection carries a malformed address.
C2_MalformedRejected ==
    /\ \A s \in Slots :
          req[s].pc # "idle" /\ ~WellFormed(req[s].walletAddress)
             => /\ Done(s)
                /\ req[s].status = 400
                /\ req[s].payouts = 0
                /\ req[s].txHash = NoTx
    /\ \A doc \in Docs(db) : WellFormed(doc.walletAddress)

\* A malformed address has been rejected while the collection holds records.
C2_Witness ==
    \E s \in Slots :
        /\ Done(s)
        /\ req[s].err = ErrInvalid
        /\ req[s].ipClaimed
        /\ db # EmptyBag

\* C3 as stated: once a wallet address has a claim record, every step of a
\* later request for it leaves the collection and the chain as they are, and
\* its answer is 400 with the already-claimed message.
C3_ClaimedAlwaysTold ==
    [][\A s \in Slots :
          Steps(s) /\ req[s].claimed
             => /\ db' = db
                /\ chain' = chain
                /\ req'[s].payouts = 0
                /\ Done(s)' => /\ req'[s].status = 400
                               /\ req'[s].err = ErrClaimed]_vars

\* C3 as amended: once a wallet address has a claim record, every step of a
\* later request for it leaves the collection (so the record's lastVisit) and
\* the chain as they are, and its answer is 400: with the already-claimed
\* message, or with the message of a lookup or chain read that failed.
C3_ClaimedRejected ==
    [][\A s \in Slots :
          Steps(s) /\ req[s].claimed
             => /\ db' = db
                /\ chain' = chain
                /\ req'[s].payouts = 0
                /\ Done(s)' => /\ req'[s].status = 400
                               /\ req'[s].err \in ReadFaults \cup {ErrClaimed}]_vars

\* A request for a claimed wallet, from another IP and on a later day, has
\* been told so, and the record still carries its first date.
C3_Witness ==
    \E s \in Slots :
        /\ Done(s)
        /\ req[s].claimed
        /\ req[s].err = ErrClaimed
        /\ \E doc \in Docs(db) :
              /\ doc.walletAddress = req[s].walletAddress
              /\ doc.ipAddress # req[s].ipAddress
              /\ doc.lastVisit < now

\* No record pairs the request's IP with the request's wallet address.
OtherWallet(s) ==
    \A doc \in Docs(db) :
        doc.ipAddress = req[s].ipAddress
           => doc.walletAddress # req[s].walletAddress

\* C4 as stated: a request from an IP that claimed within the last day, for
\* another wallet address, is answered 400 with the IP-already-claimed
\* message, whether the address is valid or not.
C4_IpAlwaysTold ==
    \A s \in Slots :
        /\ Done(s)
        /\ req[s].ipClaimed
        /\ req[s].walletAddress # <<>>
        /\ OtherWallet(s)
        => req[s].status = 400 /\ req[s].err = ErrIp

\* C4 as amended: a request from an IP that claimed within the last day, for
\* another wallet address, is answered 400 and paid nothing; the message is
\* the invalid-address one for a malformed address, and for a valid address
\* the IP-already-claimed one unless the address has a claim record of its
\* own (already-claimed) or a lookup or chain read failed (its message).
C4_IpRejected ==
    \A s \in Slots :
        /\ Done(s)
        /\ req[s].ipClaimed
        /\ req[s].walletAddress # <<>>
        /\ OtherWallet(s)
        => /\ req[s].status = 400
           /\ req[s].payouts = 0
           /\ req[s].err \in
                IF ~WellFormed(req[s].walletAddress) THEN {ErrInvalid}
                ELSE IF req[s].claimed THEN ReadFaults \cup {ErrClaimed}
                ELSE ReadFaults \cup {ErrIp}

\* A valid, fresh, unclaimed address has been refused for its IP's claim.
C4_Witness ==
    \E s \in Slots :
        /\ Done(s)
        /\ req[s].ipClaimed
        /\ OtherWallet(s)
        /\ ~req[s].claimed
        /\ req[s].fresh
        /\ req[s].err = ErrIp

\* C5: every step of a request for an address that is not fresh on chain
\* (it has sent a transaction or holds a balance) leaves the collection and
\* the faucet's transfers as they are, and its answer is 400.
C5_UsedAddressRejected ==
    [][\A s \in Slots :
          Steps(s) /\ ~req[s].fresh
             => /\ db' = db
                /\ paid' = paid
                /\ req'[s].payouts = 0
                /\ Done(s)' => req'[s].status = 400]_vars

\* An address with no claim record has been refused for its transaction
\* count, while another holds a balance the faucet did not send.
C5_Witness ==
    \E s \in Slots :
        /\ Done(s)
        /\ ~req[s].fresh
        /\ ~req[s].claimed
        /\ req[s].err = ErrUsed
        /\ req[s].txCount # 0
        /\ \E a \in Accounts : balance[a] # 0 /\ paid[a] = 0

Down == socks[provider] \in {"CLOSING", "CLOSED"}
LiveSockets == {p \in 1..Len(socks) : Live(socks[p])}

\* C7: after every drop the keeper makes a new provider, and once the
\* current provider's socket is open the handle the requests call through
\* is on that socket.
C7_ReconnectsAfterDrop ==
    /\ Down ~> (socks[provider] = "CONNECTING")
    /\ [](socks[provider] = "OPEN" => Connected)

\* A request that arrived after MaxDrops drops has been paid.
C7_Witness ==
    \E s \in Slots :
        /\ Done(s)
        /\ req[s].droppedBefore = MaxDrops
        /\ Len(socks) = MaxDrops + 1
        /\ PaidOnce(s)

\* C8: at most one provider is live or about to be made: the sockets that
\* have not closed and the reconnect timers that are set are one at most.
C8_OneLiveProvider == Cardinality(LiveSockets) + timers <= 1

\* The third provider is open, after the first two were dropped.
C8_Witness ==
    /\ drops = MaxDrops
    /\ Len(socks) = MaxDrops + 1
    /\ LiveSockets = {provider}
    /\ Connected

\* C9: a handler run answers once, with 200 or 400; with 200 only after its
\* payout and with its record in the collection, and with 400 whenever
\* something failed.
C9_Answers200Or400 ==
    \A s \in Slots :
        /\ Done(s) <=> req[s].status # 0
        /\ req[s].status \in {0, 200, 400}
        /\ req[s].status = 200 =>
              /\ req[s].err = ""
              /\ req[s].payouts = 1
              /\ req[s].txHash.to = Account(req[s].walletAddress)
              /\ Count(db, req[s].walletAddress, req[s].ipAddress) >= 1
        /\ req[s].status = 400 <=> req[s].err # ""

\* A failed upsert after a payout has been answered 400.
C9_Witness ==
    \E s \in Slots :
        /\ Done(s)
        /\ req[s].status = 400
        /\ req[s].err = ErrDb
        /\ req[s].payouts = 1

RpcSteps == {"getBalance", "getTxCount", "build", "sign", "send"}

\* C10: a chain call of a request that answers while the socket is not open
\* ends the request with 400 and leaves the collection as it is; unless the
\* call is the sending of a transfer made before the socket closed, nothing
\* is paid either. A request that arrives while the socket is not open
\* cannot come to send a transfer before the socket is open again.
C10_DownRequestFails ==
    [][\A s \in Slots :
          Steps(s) /\ req[s].pc \in RpcSteps /\ ~Connected
             => /\ Done(s)'
                /\ req'[s].status = 400
                /\ db' = db
                /\ req[s].pc # "send" => req'[s].payouts = 0 /\ chain' = chain]_vars

\* A request that arrived after a drop has failed on the dropped connection.
C10_Witness ==
    \E s \in Slots :
        /\ Done(s)
        /\ req[s].droppedBefore > 0
        /\ req[s].fresh
        /\ req[s].err = ErrRpc
        /\ socks[provider] = "CLOSED"

\* The steps of payoutFSN, and the place a step that succeeds leads to.
PayoutSteps == {"build", "sign", "send"}
AfterStep(pc) ==
    CASE pc = "build" -> "sign"
      [] pc = "sign" -> "send"
      [] pc = "send" -> "upsert"
      [] OTHER -> "done"

\* C11: a step of the payout that fails (building, signing or broadcasting
\* throws) ends the request with 400 and leaves the collection as it is; the
\* request has sent at most the one transfer of the failed broadcast, and a
\* failure before the broadcast has sent none.
C11_PayoutFailureReported ==
    [][\A s \in Slots :
          /\ Steps(s)
          /\ req[s].pc \in PayoutSteps
          /\ req'[s].pc # AfterStep(req[s].pc)
          => /\ Done(s)'
             /\ req'[s].status = 400
             /\ req'[s].err \in {ErrRpc, ErrPayout}
             /\ db' = db
             /\ req'[s].payouts <= 1
             /\ req[s].pc # "send" => req'[s].payouts = 0 /\ chain' = chain]_vars

\* A broadcast has failed: the request is answered 400, its address has no
\* record and was sent nothing, and the caller may resubmit.
C11_Witness ==
    \E s \in Slots :
        /\ Done(s)
        /\ req[s].err = ErrPayout
        /\ req[s].payouts = 0
        /\ ~HasClaim(req[s].walletAddress)
        /\ FreshOnChain(req[s].walletAddress)

\* Requests of key k that reached the handler in the limiter's current
\* window, and in the last 15 minutes (this half window and the one before).
InWindow(k) ==
    IF half = 0 THEN reached[k].now ELSE reached[k].before + reached[k].now
InLastWindowMs(k) == reached[k].before + reached[k].now

Paid(s) == req[s].payouts >= 1

\* The four lookups of the request of slot s found nothing against it.
LookupsClear(s) ==
    /\ ~req[s].walletAppliedRecently
    /\ ~req[s].ipRecent
    /\ req[s].txCount = 0
    /\ req[s].bal = 0

\* C13: nothing but its own lookups stands between a request and its payout:
\* every request that is paid found no record and no chain activity when it
\* looked, whatever has been paid or written since; an address is paid at
\* most once for each of the requests that overlap.
C13_PaidOnOwnLookups ==
    /\ \A s \in Slots : Paid(s) => LookupsClear(s)
    /\ \A a \in Accounts : paid[a] <= MaxInFlight

\* Two overlapping requests for one address that had no record when either
\* arrived have both been paid and answered 200, with different transfers.
C13_Witness ==
    \E s, t \in Slots :
        /\ s # t
        /\ req[s].walletAddress = req[t].walletAddress
        /\ Done(s) /\ Done(t)
        /\ req[s].status = 200 /\ req[t].status = 200
        /\ ~req[s].claimed /\ ~req[t].claimed
        /\ req[s].txHash # req[t].txHash
        /\ paid[Account(req[s].walletAddress)] = 2

\* The error of the condition of highest priority that holds of what the
\* lookups of the request of slot s found, "" when none holds.
Highest(s) ==
    CASE ~WellFormed(req[s].walletAddress) -> ErrInvalid
      [] OTHER ->
           CASE req[s].walletAppliedRecently -> ErrClaimed
             [] OTHER ->
                  CASE req[s].ipRecent -> ErrIp
                    [] OTHER ->
                         CASE req[s].txCount # 0 -> ErrUsed
                           [] OTHER -> IF req[s].bal # 0 THEN ErrBalance ELSE ""

\* C14 as stated: the error reported is that of the condition of highest
\* priority that holds, also when a lookup of lower priority fails.
C14_HighestAlwaysReported ==
    \A s \in Slots :
        Done(s) /\ req[s].walletAddress # <<>> /\ Highest(s) # ""
           => req[s].status = 400 /\ req[s].err = Highest(s)

\* C14 as amended: a malformed address is reported before any lookup is made;
\* for a valid address, when all four lookups have answered, the error
\* reported is that of the condition of highest priority that holds (claim
\* record, IP claimed within a day, transaction count, balance) and nothing
\* is paid; when a lookup fails, its failure is reported instead, whatever
\* the lookups before it found.
C14_HighestReportedUnlessFault ==
    \A s \in Slots :
        Done(s) /\ req[s].walletAddress # <<>> /\ Highest(s) # ""
           => /\ req[s].status = 400
              /\ req[s].payouts = 0
              /\ req[s].err \in
                    IF WellFormed(req[s].walletAddress)
                    THEN ReadFaults \cup {Highest(s)}
                    ELSE {Highest(s)}

\* A request against which three conditions held (a claim record, the IP's
\* claim of the day, a balance) has been told of the first.
C14_Witness ==
    \E s \in Slots :
        /\ Done(s)
        /\ req[s].walletAppliedRecently
        /\ req[s].ipRecent
        /\ req[s].bal # 0
        /\ req[s].err = ErrClaimed

\* The IP of the request of slot s has claimed for another wallet address;
\* with ipClaimed false, more than a day before the request arrived.
OldIpRecord(s) ==
    \E doc \in Docs(db) :
        /\ doc.ipAddress = req[s].ipAddress
        /\ doc.walletAddress # req[s].walletAddress

C16_FlagTracksConnection ==
    /\ [](socks[provider] = "OPEN" => web3.isConnected = "true")
    /\ [](socks[provider] \in {"CONNECTING", "CLOSED"} => web3.isConnected # "true")
    /\ [](\A p \in 1..Len(socks) : p # provider => socks[p] = "CLOSED")
    /\ [][\A p \in 1..Len(socks) : socks'[p] # socks[p] => p = provider]_vars
    /\ [][drops' # drops /\ socks[provider] # "CLOSED"
            => socks'[provider] \in {"CLOSING", "CLOSED"}]_vars
    /\ (socks[provider] = "CLOSING") ~> (web3.isConnected = "false")

\* The second provider has connected and ended: the flag is false and the
\* timer for the third is set.
C16_Witness ==
    /\ provider = 2
    /\ socks = <<"CLOSED", "CLOSED">>
    /\ web3.isConnected = "false"
    /\ timers = 1
    /\ drops = 2

\* The string has no upper case letter.
IsLower(str) == \A i \in 1..Len(str) : str[i] \notin HexUpper \cup {"X"}

\* The request of slot s was sent with upper case letters, for an address
\* that had a claim record when it arrived.
SentUpperForClaimed(s) ==
    /\ ~IsLower(req[s].sent)
    /\ req[s].claimed
    /\ \E doc \in Docs(db) :
          /\ IsLower(doc.walletAddress)
          /\ Len(doc.walletAddress) = Len(req[s].sent)
          /\ \A i \in 1..Len(req[s].sent) :
                LowerChar(req[s].sent[i]) = doc.walletAddress[i]

\* C17 as stated: the address the handler looks up, pays and writes has no
\* upper case letter, nor has any record; and a request whose address
\* differs only in case from one with a claim record is refused as already
\* claimed.
C17_CaseAlwaysClaimed ==
    /\ \A doc \in Docs(db) : IsLower(doc.walletAddress)
    /\ \A s \in Slots :
          /\ IsLower(req[s].walletAddress)
          /\ IsLower(req[s].txHash.to)
          /\ Done(s) /\ SentUpperForClaimed(s)
                => /\ req[s].status = 400
                   /\ req[s].payouts = 0
                   /\ req[s].err = ErrClaimed

\* C17 as amended: the same, but the refusal carries the already-claimed
\* error only if no lookup of the request fails, and otherwise the error of
\* the lookup that failed.
C17_LowerCaseEverywhere ==
    /\ \A doc \in Docs(db) : IsLower(doc.walletAddress)
    /\ \A s \in Slots :
          /\ IsLower(req[s].walletAddress)
          /\ IsLower(req[s].txHash.to)
          /\ Done(s) /\ SentUpperForClaimed(s)
                => /\ req[s].status = 400
                   /\ req[s].payouts = 0
                   /\ req[s].err \in ReadFaults \cup {ErrClaimed}

\* An address sent in upper case has been refused as already claimed, its
\* record being in lower case.
C17_Witness ==
    \E s \in Slots :
        /\ Done(s)
        /\ SentUpperForClaimed(s)
        /\ req[s].sent # req[s].walletAddress
        /\ req[s].err = ErrClaimed

\* The (walletAddress, ipAddress) pairs on record.
Pairs(d) == {<<doc.walletAddress, doc.ipAddress>> : doc \in Docs(d)}

\* C18: the collection changes only in the step that answers 200, the upsert
\* of a request that has been paid: the record of the request's pair is
\* added or replaced, every other record stays, and no pair is removed; a
\* step that answers 400 leaves the collection as it is; and every address on
\* record has been paid.
C18_OnlyUpsertWrites ==
    /\ [](\A doc \in Docs(db) : paid[Account(doc.walletAddress)] >= 1)
    /\ [][db' # db =>
            \E s \in Slots :
               /\ req[s].pc = "upsert"
               /\ req[s].payouts = 1
               /\ req'[s].status = 200
               /\ Pairs(db') = Pairs(db) \cup {<<req[s].walletAddress, req[s].ipAddress>>}
               /\ \A doc \in Docs(db) :
                     \/ CopiesIn(doc, db') = CopiesIn(doc, db)
                     \/ /\ doc.walletAddress = req[s].walletAddress
                        /\ doc.ipAddress = req[s].ipAddress]_vars
    /\ [][\A s \in Slots : Steps(s) /\ req'[s].status = 400 => db' = db]_vars

\* A request whose upsert failed after its payout has left the collection,
\* which holds another address's record, without a record of its own.
C18_Witness ==
    \E s \in Slots :
        /\ Done(s)
        /\ req[s].err = ErrDb
        /\ req[s].payouts = 1
        /\ ~HasClaim(req[s].walletAddress)
        /\ db # EmptyBag

C20_StatusTellsPayout ==
    \A s \in Slots :
        Done(s) =>
           /\ req[s].status = 400 => req[s].payouts = 0
           /\ Paid(s) => req[s].status = 200 /\ req[s].txHash # NoTx

\* C20 as amended: a request answered 200 was sent one transfer and carries
\* its hash; a request answered 400 was sent nothing, unless the error is
\* that of the upsert, which failed after the transfer, or that of the
\* broadcast, which threw after the transfer was mined.
C20_OkTellsPayout ==
    \A s \in Slots :
        Done(s) =>
           /\ req[s].status = 200 =>
                 /\ req[s].payouts = 1
                 /\ req[s].txHash.to = Account(req[s].walletAddress)
                 /\ req[s].txHash.n \in 1..paid[Account(req[s].walletAddress)]
           /\ req[s].status = 400 /\ req[s].err \notin {ErrDb, ErrPayout}
                 => req[s].payouts = 0
           /\ req[s].payouts <= 1
           /\ Paid(s) => paid[Account(req[s].walletAddress)] >= 1

\* A request whose broadcast threw has been answered 400, and its address
\* holds the transfer.
C20_Witness ==
    \E s \in Slots :
        /\ Done(s)
        /\ req[s].status = 400
        /\ req[s].err = ErrPayout
        /\ Paid(s)
        /\ balance[Account(req[s].walletAddress)] >= PayoutGwei

====
